---- MODULE Spec2Model ----
(***************************************************************************)
(* Model of the self-update engine: the Updater class (runUpdate, update,  *)
(* updateToExistingVersion, createBin, findLocalVersion, touch, tidy) and  *)
(* the archive extractor (extract, ignore).                                *)
(*                                                                         *)
(* The client root is a map from entry names to entries.  A name is a      *)
(* sequence of tokens, so that String.startsWith is a real prefix test; a  *)
(* path inside a tree is a sequence of names.  Every await of the code is  *)
(* a step boundary (pc), so that a crash can fall between any two of them. *)
(***************************************************************************)
EXTENDS Integers, Sequences, FiniteSets, TLC

VARIABLES
    now,          \* the wall clock (new Date()), in minutes
    lastrun,      \* mtime of <cacheDir>/lastrun
    windows,      \* config.windows: the host runs batch scripts
    rootDir,      \* whether the client root directory exists
    root,         \* the entries of the client root: name -> entry
    channelFile,  \* content of <dataDir>/channel, or NoChannel
    config,       \* this.config: [version, binPath]
    pc,           \* position of the single updater process
    r,            \* the locals of the running runUpdate / extract
    trace,        \* the steps the current run has performed, in order
    root0,        \* the client root as it was when the current run started
    runs,         \* runUpdate invocations started so far
    ticks,        \* clock jumps so far
    call          \* the last direct call of a helper: its arguments and its result

vars == <<now, lastrun, windows, rootDir, root, channelFile, config, pc, r, trace,
          root0, runs, ticks, call>>

----------------------------------------------------------------------------
(* Bounds of the model *)

MaxRuns == 2
MaxTicks == 1
MaxTags == 2
MaxClock == 3

----------------------------------------------------------------------------
(* Program constants *)

\* tidy: mtime.setHours(mtime.getHours() + 42 * 24)
RetentionMinutes == 42 * 24 * 60
\* debounce: m.setHours(m.getHours() + 1)
DebounceMinutes == 1 * 60
\* debounce: wait(60 * 1000)
WaitMinutes == 1

----------------------------------------------------------------------------
(* Names, strings and paths *)
(* A name is a sequence of tokens; a string (a path, a version string, a   *)
(* file body) is a sequence of names, one per path segment.                *)

V1  == <<"3.2.0">>
V1x == <<"3.2.0", "-rc">>      \* a longer version string that begins with V1
Versions == {V1, V1x}

ROOT    == <<"client">>         \* this.clientRoot
BIN     == <<"bin">>
CURRENT == <<"current">>
TOOL    == <<"tool">>           \* config.bin
TOOLCMD == <<"tool", ".cmd">>   \* `${config.bin}.cmd`
DOT     == <<".">>
DOTDOT  == <<"..">>
DIRVAR  == <<"$DIR">>
DP0     == <<"%~dp0">>
LINK    == <<"link">>
DEV     == <<"dev">>
NoName  == <<>>

\* Math.random().toString().split('.')[1].slice(0, 5)
Suffixes == {"11111", "22222"}

\* getTmp: `${output}.partial.${n}`, on the last segment of the path output
getTmp(output, n) ==
    [output EXCEPT ![Len(output)] = @ \o <<".partial.", n>>]

\* String.prototype.startsWith, on names
startsWith(s, p) == Len(p) <= Len(s) /\ SubSeq(s, 1, Len(p)) = p

\* path.join: '' contributes nothing
join(dir, rel) == dir \o rel
\* path.basename: the last segment, as a string
basename(p) == IF Len(p) = 0 THEN <<>> ELSE <<p[Len(p)]>>
\* path.dirname
dirname(p) == IF Len(p) = 0 THEN <<>> ELSE SubSeq(p, 1, Len(p) - 1)

\* join(this.clientRoot, f)
pathOf(name) == join(<<ROOT>>, <<name>>)
\* the root entry a path of the client root names
nameOf(path) == path[2]

PartialNames == {nameOf(getTmp(pathOf(v), n)) : v \in Versions, n \in Suffixes}
Names == Versions \cup PartialNames \cup {BIN, CURRENT}

----------------------------------------------------------------------------
(* Entries of the client root *)

NoEntry == [kind |-> "none", tree |-> {}, mtime |-> 0, body |-> <<>>, target |-> <<>>]

\* a directory holding the relative paths of tree
Dir(tree, t) == [kind |-> "dir", tree |-> tree, mtime |-> t, body |-> <<>>, target |-> <<>>]

EmptyRoot == [n \in Names |-> NoEntry]

\* existsSync(join(this.clientRoot, name))
existsSync(name) == rootDir /\ root[name].kind # "none"

----------------------------------------------------------------------------
(* The archive stream *)

ArchiveKinds == {"plain", "symlink", "device"}

\* The tar stream of version v: one top-level directory v/ holding bin/<tool>
\* (spec section 6), optionally followed by a symlink entry or an entry of another type.
Archive(v, kind) ==
    LET tree  == <<[name |-> <<v>>, type |-> "directory"],
                   [name |-> <<v, BIN, TOOL>>, type |-> "file"]>>
        extra == IF kind = "symlink" THEN <<[name |-> <<v, LINK>>, type |-> "symlink"]>>
                 ELSE IF kind = "device" THEN <<[name |-> <<v, DEV>>, type |-> "character-device"]>>
                 ELSE <<>>
    IN  tree \o extra

\* the streams a download of version v may deliver
Archives(v) == {Archive(v, kind) : kind \in ArchiveKinds}

\* ignore(_name, header): "keep" is `return false`, "skip" is `return true`
ignore(header) ==
    IF header.type \in {"directory", "file"} THEN "keep"
    ELSE IF header.type = "symlink" THEN "skip"
    ELSE "throw"

\* what a complete extraction of the archive leaves in the target directory
Extracted(archive) ==
    {archive[i].name : i \in {j \in 1..Len(archive) : ignore(archive[j]) = "keep"}}

----------------------------------------------------------------------------
(* Pure helpers of the updater *)

\* a plausible slip: the comparison is inverted
alreadyOnVersion_inverted(current, updated) == current # updated

\* const alreadyOnVersion = (current, updated) => current === updated
alreadyOnVersion(current, updated) == current = updated

\* the launcher script createBin writes, as the sequence of its path segments
shimBody(version, win) ==
    IF win THEN <<DP0, DOTDOT, version, BIN, TOOLCMD>>
    ELSE <<DIRVAR, DOTDOT, version, BIN, TOOL>>

\* currentVersion.match(/\.\.[/\\|](.+)[/\\|]bin/): the segment between '..' and 'bin'
shimMatch(body) ==
    LET hits == {i \in 1..Len(body) : i + 2 <= Len(body) /\ body[i] = DOTDOT /\ body[i + 2] = BIN}
    IN  IF hits = {} THEN NoName
        ELSE body[(CHOOSE i \in hits : \A j \in hits : i <= j) + 1]

\* determineCurrentVersion(clientBin, version)
determineCurrentVersion(binEntry, version) ==
    IF binEntry.kind = "none" \/ binEntry.body = <<>> THEN version   \* readFile throws
    ELSE IF shimMatch(binEntry.body) # NoName THEN shimMatch(binEntry.body)
    ELSE version

NoChannel == "<none>"
\* dist-tags of the registry, in key order: <<tag, version>> pairs
TagMaps == { <<<<"latest", V1>>>> }

\* a plausible slip: the npm tag is returned as it is
determineChannel_raw(file, tags, version, ok) ==
    LET channel == IF file # NoChannel THEN file ELSE "stable"
        hits    == {i \in 1..Len(tags) : tags[i][2] = version}
    IN  IF ~ok \/ hits = {} THEN channel
        ELSE tags[CHOOSE i \in hits : \A j \in hits : i <= j][1]

\* determineChannel({config, version}); ok = FALSE when the registry query fails
determineChannel(file, tags, version, ok) ==
    LET channel == IF file # NoChannel THEN file ELSE "stable"
        hits    == {i \in 1..Len(tags) : tags[i][2] = version}
        tag     == IF hits = {} THEN channel
                   ELSE tags[CHOOSE i \in hits : \A j \in hits : i <= j][1]
    IN  IF ~ok THEN channel
        ELSE IF tag = "latest" THEN "stable"
        ELSE IF tag = "latest-rc" THEN "stable-rc"
        ELSE tag

----------------------------------------------------------------------------
(* The locals of a run *)

NoRun == [force |-> FALSE, version |-> NoName, channel |-> NoChannel,
          current |-> NoName, localVersion |-> NoName, updated |-> NoName,
          branch |-> "none", tmp |-> NoName, read |-> <<>>,
          before |-> NoEntry, failed |-> FALSE, error |-> "none", warned |-> FALSE,
          rmFailed |-> FALSE]

NoConfig == [version |-> NoName, binPath |-> FALSE]

Snapshot == [dir |-> rootDir, entries |-> root]

NoCall == [op |-> "none"]

Init ==
    /\ now = 0
    \* the surrounding CLI touched the marker an hour before the first run
    /\ lastrun = 0 - DebounceMinutes
    /\ rootDir = FALSE
    /\ root = EmptyRoot
    /\ channelFile = NoChannel
    /\ windows = FALSE
    /\ config = NoConfig
    /\ pc = "idle"
    /\ r = NoRun
    /\ trace = <<>>
    /\ root0 = [dir |-> FALSE, entries |-> EmptyRoot]
    /\ runs = 0
    /\ ticks = 0
    /\ call = NoCall

fsVars  == <<rootDir, root, channelFile>>
envVars == <<lastrun, windows>>
cntVars == <<runs, ticks, call>>

\* A CLI process calls runUpdate(options): line 73
StartRun ==
    /\ pc = "idle"
    /\ runs < MaxRuns
    /\ \E autoUpdate \in BOOLEAN, force \in BOOLEAN, version \in Versions \cup {NoName},
          cfgVersion \in Versions, binPath \in BOOLEAN :
          /\ r' = [NoRun EXCEPT !.force = force, !.version = version]
          /\ config' = [version |-> cfgVersion, binPath |-> binPath]
          /\ pc' = IF autoUpdate THEN "debounce" ELSE "start"
    /\ trace' = <<>>
    /\ root0' = Snapshot
    /\ runs' = runs + 1
    /\ UNCHANGED <<now, fsVars, envVars, ticks, call>>

\* a plausible slip: the gate never waits
markerInFuture_never(m, t) == FALSE

\* debounce line 298: m > new Date()
markerInFuture(m, t) == m > t

\* debounce(cacheDir): one evaluation of the marker, and one wait when it is too young
debounce ==
    /\ pc = "debounce"
    /\ LET m == lastrun + DebounceMinutes IN
       IF markerInFuture(m, now)
       THEN /\ now' = now + WaitMinutes
            /\ pc' = "debounce"
       ELSE /\ pc' = "start"
            /\ now' = now
    /\ UNCHANGED <<fsVars, envVars, config, r, trace, root0, cntVars>>

\* notUpdatable(config)
notUpdatable(cfg) == ~cfg.binPath

\* the entry of the client root under name, NoEntry when the root itself is missing
entryOf(name) == IF rootDir THEN root[name] ELSE NoEntry

\* runUpdate lines 76-86: notUpdatable, determineChannel, determineCurrentVersion
start ==
    /\ pc = "start"
    /\ IF notUpdatable(config)
       THEN /\ pc' = "done"
            /\ r' = [r EXCEPT !.branch = "notUpdatable"]
       ELSE /\ pc' = "decide"
            /\ \E tags \in TagMaps, ok \in BOOLEAN :
                 r' = [r EXCEPT
                         !.channel = determineChannel(channelFile, tags, r.version, ok),
                         !.current = determineCurrentVersion(entryOf(BIN), config.version)]
    /\ UNCHANGED <<now, fsVars, envVars, config, trace, root0, cntVars>>

\* findLocalVersions: the entries of the root other than 'bin' and 'current'
findLocalVersions(entries) ==
    {f \in Names : entries[f].kind # "none" /\ f # BIN /\ f # CURRENT}

\* the test of findLocalVersion's find
matchesVersion(file, version) == startsWith(file, version)

\* findLocalVersion(version): readdir gives no order, so find may return any match;
\* NoName is `undefined`
findLocalVersion(entries, version) ==
    LET hits == {f \in findLocalVersions(entries) : matchesVersion(f, version)}
    IN  IF hits = {} THEN {NoName} ELSE hits

\* a plausible slip: the no-op test is dropped and every run installs
stayOnCurrent_never(force, current, updated) == FALSE

\* the decision of runUpdate line 123: stay on the current version
stayOnCurrent(force, current, updated) == ~force /\ alreadyOnVersion(current, updated)

\* runUpdate lines 88-94 and 116-125: choose the branch
decide ==
    /\ pc = "decide"
    /\ IF r.version # NoName
       THEN \E lv \in (IF r.force THEN {NoName} ELSE findLocalVersion(root, r.version)) :
              \* findLocalVersions calls ensureClientDir
              /\ rootDir' = (rootDir \/ ~r.force)
              /\ IF alreadyOnVersion(r.current, lv)
                 THEN /\ pc' = "done"
                      /\ r' = [r EXCEPT !.branch = "alreadyOn", !.localVersion = lv]
                 ELSE /\ pc' = "preupdate"
                      /\ r' = [r EXCEPT !.localVersion = lv,
                                        !.updated = IF lv # NoName THEN lv ELSE r.version,
                                        !.branch = IF lv # NoName THEN "SwitchLocal"
                                                   ELSE "DownloadAndInstall"]
       ELSE \E ok \in BOOLEAN, latestVersion \in Versions :
              /\ rootDir' = rootDir
              /\ IF ~ok
                 THEN pc' = "rejected" /\ r' = [r EXCEPT !.error = "latest"]
                 ELSE IF stayOnCurrent(r.force, r.current, latestVersion)
                 THEN /\ pc' = "hookUpdate"
                      /\ r' = [r EXCEPT !.branch = "NoOp", !.updated = latestVersion]
                 ELSE /\ pc' = "preupdate"
                      /\ r' = [r EXCEPT !.branch = "DownloadAndInstall",
                                        !.updated = latestVersion]
    /\ UNCHANGED <<now, root, channelFile, envVars, config, trace, root0, cntVars>>

\* this.config.runHook('preupdate', ...), line 96 or 126; a hook may raise
preupdate ==
    /\ pc = "preupdate"
    /\ trace' = Append(trace, "preupdate")
    /\ \E ok \in BOOLEAN :
         IF ~ok
         THEN pc' = "rejected" /\ r' = [r EXCEPT !.error = "preupdate"]
         ELSE /\ r' = r
              /\ pc' = IF r.version = NoName THEN "update"
                       ELSE IF r.localVersion # NoName THEN "updateToExistingVersion"
                       ELSE "index"
    /\ UNCHANGED <<now, fsVars, envVars, config, root0, cntVars>>

\* runUpdate lines 101-105: fetchVersionIndex and the lookup of the version in it
fetchVersionIndex ==
    /\ pc = "index"
    /\ trace' = Append(trace, "index")
    /\ \E ok \in BOOLEAN, index \in SUBSET Versions :
         IF ok /\ r.version \in index
         THEN pc' = "update" /\ r' = r
         ELSE pc' = "rejected" /\ r' = [r EXCEPT !.error = "index"]
    /\ UNCHANGED <<now, fsVars, envVars, config, root0, cntVars>>

\* update lines 235-237: ensureClientDir, then download unless the version is there
needsDownload(force, present) == force \/ ~present

update ==
    /\ pc = "update"
    /\ rootDir' = TRUE
    /\ pc' = IF needsDownload(r.force, existsSync(r.updated)) THEN "download" ELSE "refreshConfig"
    /\ UNCHANGED <<now, root, channelFile, envVars, config, r, trace, root0, cntVars>>

\* the baseDir update passes to downloadAndExtract: ''
baseDir == <<>>

\* downloadAndExtract lines 319-325 and extract lines 29-32: open the stream, pick tmp
downloadAndExtract ==
    /\ pc = "download"
    /\ trace' = Append(trace, "download")
    /\ \E ok \in BOOLEAN, n1 \in Suffixes, n2 \in Suffixes :
         LET output == pathOf(r.updated)
             first  == nameOf(getTmp(output, n1))
             tmp    == IF existsSync(first) THEN nameOf(getTmp(output, n2)) ELSE first
         IN  IF ~ok
             THEN pc' = "rejected" /\ r' = [r EXCEPT !.error = "download"]
             ELSE /\ pc' = "extracting"
                  /\ r' = [r EXCEPT !.tmp = tmp, !.read = <<>>,
                                    !.before = root[r.updated]]
    /\ UNCHANGED <<now, fsVars, envVars, config, root0, cntVars>>

----------------------------------------------------------------------------
(* File-system operations on the entries of the client root *)

\* rm(path, {force: true, recursive: true})
rm(fs, name) == [fs EXCEPT ![name] = NoEntry]

\* a plausible slip: the staging directory is not removed
rmTmp_skip(fs, name, ok) == fs

\* rm(tmp, {force: true, recursive: true}).catch(...): the removal, or nothing when
\* rm fails (ok = FALSE), the failure being swallowed by the catch handler
rmTmp(fs, name, ok) == IF ok THEN rm(fs, name) ELSE fs

\* the outcomes rm can have on name: it cannot fail on a path that does not exist
rmOutcomes(fs, name) == IF fs[name].kind = "none" THEN {TRUE} ELSE BOOLEAN

\* the paths of tree below rel, relative to rel
Subtree(tree, rel) ==
    {SubSeq(p, Len(rel) + 1, Len(p)) :
        p \in {q \in tree : Len(q) > Len(rel) /\ SubSeq(q, 1, Len(rel)) = rel}}

\* what join(tmp, rel) names exists
fromExists(fs, tmp, rel) ==
    /\ fs[tmp].kind = "dir"
    /\ rel = <<>> \/ rel \in fs[tmp].tree

\* rename(2) of a directory fails on a missing source and on a non-empty target
renameOk(fs, tmp, rel, out) ==
    /\ fromExists(fs, tmp, rel)
    /\ fs[out].kind = "none" \/ (fs[out].kind = "dir" /\ fs[out].tree = {})

\* rename(join(tmp, rel), output)
rename(fs, tmp, rel, out) ==
    LET moved == Subtree(fs[tmp].tree, rel)
        left  == fs[tmp].tree \ ({rel} \cup {q \in fs[tmp].tree :
                                      Len(q) > Len(rel) /\ SubSeq(q, 1, Len(rel)) = rel})
    IN  [fs EXCEPT ![out] = Dir(moved, fs[tmp].mtime),
                   ![tmp] = IF rel = <<>> THEN NoEntry ELSE Dir(left, fs[tmp].mtime)]

\* cp(src, dst) without {recursive: true}: a directory is refused (ERR_FS_EISDIR)
cpOk(fs, src) == fs[src].kind # "dir"
cp(fs, src, dst) == [fs EXCEPT ![dst] = fs[src]]

\* tar-fs writes one accepted entry below the target directory
writeEntry(fs, target, name, t) ==
    [fs EXCEPT ![target] = Dir(fs[target].tree \cup {name}, t)]

----------------------------------------------------------------------------
(* extract(stream, basename, output) *)

\* a plausible slip: the stream is unpacked at the final path
extractTarget_output(tmp, output) == output

\* where tarExtract writes: tarExtract(tmp, {ignore}), line 38
extractTarget(tmp, output) == tmp

\* a plausible slip: the promise resolves as soon as one entry has been written
finished_early(read, archives) == Len(read) >= 1

\* extract lines 35-43: 'finish' fires once every entry of the stream is flushed
finished(read, archives) == read \in archives

\* extract lines 34-46: the stream delivers its next entry, or fails
extractEntry ==
    /\ pc = "extracting"
    /\ \E archive \in Archives(r.updated), streamError \in BOOLEAN :
         /\ Len(r.read) < Len(archive)
         /\ SubSeq(archive, 1, Len(r.read)) = r.read
         /\ LET header == archive[Len(r.read) + 1]
                target == extractTarget(r.tmp, r.updated)
            IN  IF streamError \/ ignore(header) = "throw"
                THEN /\ pc' = "exCatch"
                     /\ r' = [r EXCEPT !.failed = TRUE, !.read = <<>>]
                     /\ root' = root
                ELSE /\ pc' = "extracting"
                     /\ r' = [r EXCEPT !.read = Append(r.read, header)]
                     /\ root' = IF ignore(header) = "skip" THEN root
                                ELSE writeEntry(root, target, header.name, now)
    /\ UNCHANGED <<now, rootDir, channelFile, envVars, config, trace, root0, cntVars>>

\* extract lines 40-57: 'finish', then the backup of an existing output
extractBackup ==
    /\ pc = "extracting"
    /\ finished(r.read, Archives(r.updated))
    /\ pc' = "exRename"
    /\ IF existsSync(r.updated)
       THEN \E n \in Suffixes :
              LET tmp2 == nameOf(getTmp(pathOf(r.updated), n)) IN
              IF cpOk(root, r.updated)
              THEN /\ root' = rm(cp(root, r.updated, tmp2), tmp2)
                   /\ r' = [r EXCEPT !.read = <<>>]
              \* the catch block names the outer tmp: line 55
              ELSE /\ \E ok \in rmOutcomes(root, r.tmp) : root' = rmTmp(root, r.tmp, ok)
                   /\ r' = [r EXCEPT !.failed = TRUE, !.read = <<>>]
       ELSE /\ root' = root
            /\ r' = [r EXCEPT !.read = <<>>]
    /\ UNCHANGED <<now, rootDir, channelFile, envVars, config, trace, root0, cntVars>>

\* extract lines 59-62: rename(join(tmp, basename), output)
extractRename ==
    /\ pc = "exRename"
    /\ IF renameOk(root, r.tmp, baseDir, r.updated)
       THEN /\ root' = rename(root, r.tmp, baseDir, r.updated)
            /\ pc' = "exRmTmp"
            /\ trace' = Append(trace, "extract")
       ELSE /\ pc' = "exCatch"
            /\ UNCHANGED <<root, trace>>
    /\ UNCHANGED <<now, rootDir, channelFile, envVars, config, r, root0, cntVars>>

\* extract line 63: rm(tmp)
extractRmTmp ==
    /\ pc = "exRmTmp"
    /\ \E ok \in rmOutcomes(root, r.tmp) :
         /\ root' = rmTmp(root, r.tmp, ok)
         /\ r' = [r EXCEPT !.rmFailed = ~ok]
    /\ pc' = "exTouch"
    /\ UNCHANGED <<now, rootDir, channelFile, envVars, config, trace, root0, cntVars>>

\* extract line 64: touch(output)
extractTouch ==
    /\ pc = "exTouch"
    /\ root' = [root EXCEPT ![r.updated].mtime = now]
    /\ pc' = "refreshConfig"
    /\ UNCHANGED <<now, rootDir, channelFile, envVars, config, r, trace, root0, cntVars>>

\* a plausible slip: the catch block logs the error and does not re-raise it
onExtractError_swallow == "refreshConfig"

\* what downloadAndExtract does with a rejection of extract: lines 346-348, throw
onExtractError == "rejected"

\* extract lines 66-69 and downloadAndExtract lines 346-348: clean up and re-raise
extractCatch ==
    /\ pc = "exCatch"
    /\ \E ok \in rmOutcomes(root, r.tmp) :
         /\ root' = rmTmp(root, r.tmp, ok)
         /\ r' = [r EXCEPT !.error = "extract", !.rmFailed = ~ok]
    /\ pc' = onExtractError
    /\ UNCHANGED <<now, rootDir, channelFile, envVars, config, trace, root0, cntVars>>

----------------------------------------------------------------------------
(* Activation: refreshConfig, setChannel, createBin *)

\* updateToExistingVersion lines 245-246: ensureClientDir
updateToExistingVersion ==
    /\ pc = "updateToExistingVersion"
    /\ rootDir' = TRUE
    /\ pc' = "refreshConfig"
    /\ UNCHANGED <<now, root, channelFile, envVars, config, r, trace, root0, cntVars>>

\* refreshConfig(updated): Config.load of <root>/<updated>, which may raise
refreshConfig ==
    /\ pc = "refreshConfig"
    /\ \E ok \in BOOLEAN :
         IF ok
         THEN /\ config' = [config EXCEPT !.version = r.updated]
              /\ pc' = IF r.branch = "SwitchLocal" THEN "createBin" ELSE "setChannel"
         ELSE /\ config' = config
              /\ pc' = "rejected"
    /\ r' = IF pc' = "rejected" THEN [r EXCEPT !.error = "refreshConfig"] ELSE r
    /\ UNCHANGED <<now, fsVars, envVars, trace, root0, cntVars>>

\* setChannel(channel, dataDir): writeFile(join(dataDir, 'channel'), channel)
setChannel ==
    /\ pc = "setChannel"
    /\ channelFile' = r.channel
    /\ pc' = "createBin"
    /\ UNCHANGED <<now, rootDir, root, envVars, config, r, trace, root0, cntVars>>

\* createBin line 144: mkdir(dirname(dst), {recursive: true})
createBinMkdir ==
    /\ pc = "createBin"
    /\ rootDir' = TRUE
    /\ root' = IF root[BIN].kind = "none" THEN [root EXCEPT ![BIN] = Dir({}, now)] ELSE root
    /\ pc' = "cbWrite"
    /\ UNCHANGED <<now, channelFile, envVars, config, r, trace, root0, cntVars>>

\* the file name of the shim inside bin/
clientBin(win) == IF win THEN <<TOOLCMD>> ELSE <<TOOL>>

\* createBin lines 153 and 174: writeFile(dst, body)
createBinWrite ==
    /\ pc = "cbWrite"
    /\ root' = [root EXCEPT ![BIN] =
                  [@ EXCEPT !.body = shimBody(r.updated, windows),
                            !.tree = @ \cup {clientBin(windows)},
                            \* a new file in bin/ changes the directory's mtime
                            !.mtime = IF clientBin(windows) \in root[BIN].tree THEN @ ELSE now]]
    /\ trace' = Append(trace, "createBin")
    /\ pc' = IF windows THEN "hookUpdate" ELSE "cbRm"
    /\ UNCHANGED <<now, rootDir, channelFile, envVars, config, r, root0, cntVars>>

\* createBin line 175: rm(join(this.clientRoot, 'current'))
createBinRm ==
    /\ pc = "cbRm"
    /\ root' = rm(root, CURRENT)
    /\ pc' = "cbSymlink"
    /\ UNCHANGED <<now, rootDir, channelFile, envVars, config, r, trace, root0, cntVars>>

\* the target of the 'current' symlink: `./${version}`
linkTarget(version) == <<DOT, version>>

\* createBin line 176: symlink(`./${version}`, join(this.clientRoot, 'current'))
createBinSymlink ==
    /\ pc = "cbSymlink"
    /\ root' = [root EXCEPT ![CURRENT] =
                  [kind |-> "link", tree |-> {}, mtime |-> now, body |-> <<>>,
                   target |-> linkTarget(r.updated)]]
    /\ pc' = "hookUpdate"
    /\ UNCHANGED <<now, rootDir, channelFile, envVars, config, r, trace, root0, cntVars>>

----------------------------------------------------------------------------
(* The end of runUpdate: the 'update' hook, touch, tidy *)

\* this.config.runHook('update', ...), line 110 or 130; a hook may raise
hookUpdate ==
    /\ pc = "hookUpdate"
    /\ trace' = Append(trace, "update")
    /\ \E ok \in BOOLEAN : pc' = IF ok THEN "touch" ELSE "rejected"
    /\ r' = IF pc' = "rejected" THEN [r EXCEPT !.error = "update"] ELSE r
    /\ UNCHANGED <<now, fsVars, envVars, config, root0, cntVars>>

\* what touch() does with a rejection of utimes: `return utimes(...)` is not awaited
\* inside the try block, so the rejection leaves touch() and runUpdate
touchFailure == "rejected"

\* runUpdate lines 134-135: tidy follows touch
afterTouch == "tidy"

\* touch(), lines 216-226
touch ==
    /\ pc = "touch"
    /\ trace' = Append(trace, "touch")
    /\ IF ~existsSync(config.version)
       THEN pc' = afterTouch /\ root' = root
       ELSE \E ok \in BOOLEAN :
              IF ok
              THEN pc' = afterTouch /\ root' = [root EXCEPT ![config.version].mtime = now]
              ELSE pc' = touchFailure /\ root' = root
    /\ r' = IF pc' = "rejected" THEN [r EXCEPT !.error = "touch"] ELSE r
    /\ UNCHANGED <<now, rootDir, channelFile, envVars, config, root0, cntVars>>

\* ls(root): every entry of the root with its path and stat
ls(fs) == {[path |-> pathOf(n), stat |-> [mtime |-> fs[n].mtime]] :
              n \in {m \in Names : fs[m].kind # "none"}}

\* const isNotSpecial = (fPath, version) => !['bin', 'current', version].includes(basename(fPath))
isNotSpecial(fPath, version) == basename(fPath) \notin {<<BIN>>, <<CURRENT>>, version}

\* a plausible slip: the comparison of isOld is turned around
isOld_young(fStat, t) == fStat.mtime + RetentionMinutes > t

\* const isOld = (fStat) => mtime + 42 days < new Date()
isOld(fStat, t) == fStat.mtime + RetentionMinutes < t

\* the filter of tidy, line 208: isNotSpecial(this.config.version, f.path) && isOld(f.stat)
tidyFilter(f, version, t) == isNotSpecial(version, f.path) /\ isOld(f.stat, t)

\* the entries the filter of tidy selects for rm, lines 206-209
doomed(fs, version, t) ==
    {nameOf(f.path) : f \in {g \in ls(fs) : tidyFilter(g, version, t)}}

\* tidy(), lines 190-214: a failure of ls or of any rm is caught and warned about
tidy ==
    /\ pc = "tidy"
    /\ trace' = Append(trace, "tidy")
    /\ pc' = "done"
    /\ IF ~rootDir
       THEN root' = root /\ r' = r
       ELSE \E lsOk \in BOOLEAN :
              IF ~lsOk
              THEN root' = root /\ r' = [r EXCEPT !.warned = TRUE]
              ELSE \E failing \in SUBSET doomed(root, <<config.version>>, now) :
                     /\ root' = [n \in Names |->
                                   IF n \in doomed(root, <<config.version>>, now) \ failing
                                   THEN NoEntry ELSE root[n]]
                     /\ r' = [r EXCEPT !.warned = (failing # {})]
    /\ UNCHANGED <<now, rootDir, channelFile, envVars, config, root0, cntVars>>

----------------------------------------------------------------------------
(* The process and its environment *)

\* runUpdate has settled and the process exits
Finish ==
    /\ pc \in {"done", "rejected"}
    /\ pc' = "idle"
    /\ r' = NoRun
    /\ config' = NoConfig
    /\ trace' = <<>>
    /\ root0' = [dir |-> FALSE, entries |-> EmptyRoot]
    /\ UNCHANGED <<now, fsVars, envVars, cntVars>>

\* the process dies between two steps; the disk stays as it is
Crash ==
    /\ pc \notin {"idle", "done", "rejected"}
    /\ pc' = "idle"
    /\ r' = NoRun
    /\ config' = NoConfig
    /\ trace' = <<>>
    /\ root0' = [dir |-> FALSE, entries |-> EmptyRoot]
    /\ UNCHANGED <<now, fsVars, envVars, cntVars>>

\* time passes between two runs: a minute more than the retention window
Tick ==
    /\ pc = "idle"
    /\ ticks < MaxTicks
    /\ ticks' = ticks + 1
    /\ now' = now + RetentionMinutes + WaitMinutes
    /\ UNCHANGED <<fsVars, envVars, config, pc, r, trace, root0, runs, call>>

Next ==
    \/ StartRun
    \/ debounce
    \/ start
    \/ decide
    \/ preupdate
    \/ fetchVersionIndex
    \/ update
    \/ downloadAndExtract
    \/ extractEntry
    \/ extractBackup
    \/ extractRename
    \/ extractRmTmp
    \/ extractTouch
    \/ extractCatch
    \/ updateToExistingVersion
    \/ refreshConfig
    \/ setChannel
    \/ createBinMkdir
    \/ createBinWrite
    \/ createBinRm
    \/ createBinSymlink
    \/ hookUpdate
    \/ touch
    \/ tidy
    \/ Finish
    \/ Crash
    \/ Tick

Spec == Init /\ [][Next]_vars

\* The client root after 3.2.0-rc and then 3.2.0 have been installed and activated:
\* both version directories, the shim and 'current' on 3.2.0, the channel file.
InstalledRoot ==
    [n \in Names |->
        IF n \in Versions THEN Dir(Extracted(Archive(n, "plain")), 0)
        ELSE IF n = BIN
        THEN [kind |-> "dir", tree |-> {<<TOOL>>}, mtime |-> 0,
              body |-> <<DIRVAR, DOTDOT, V1, BIN, TOOL>>, target |-> <<>>]
        ELSE IF n = CURRENT
        THEN [kind |-> "link", tree |-> {}, mtime |-> 0, body |-> <<>>,
              target |-> <<DOT, V1>>]
        ELSE NoEntry]

InitInstalled ==
    /\ now = 0
    /\ lastrun = 0 - DebounceMinutes
    /\ rootDir = TRUE
    /\ root = InstalledRoot
    /\ channelFile = "stable"
    /\ windows = FALSE
    /\ config = NoConfig
    /\ pc = "idle"
    /\ r = NoRun
    /\ trace = <<>>
    /\ root0 = [dir |-> FALSE, entries |-> EmptyRoot]
    /\ runs = 0
    /\ ticks = 0
    /\ call = NoCall

SpecInstalled == InitInstalled /\ [][Next]_vars

----------------------------------------------------------------------------
(* determineChannel on its own *)

\* the contents a channel file may have, NoChannel when there is no file
ChannelFiles == {NoChannel, "stable", "beta", "latest", "latest-rc"}

TagNames == {"latest", "latest-rc", "beta"}

\* body['dist-tags']: up to MaxTags keys, in key order, each with its version
DistTags ==
    {t \in UNION {[1..n -> TagNames \X Versions] : n \in 0..MaxTags} :
        \A i, j \in 1..Len(t) : i # j => t[i][1] # t[j][1]}

InitChannel ==
    /\ now = 0
    /\ lastrun = 0 - DebounceMinutes
    /\ rootDir = FALSE
    /\ root = EmptyRoot
    /\ channelFile \in ChannelFiles
    /\ windows = FALSE
    /\ config = NoConfig
    /\ pc = "idle"
    /\ r = NoRun
    /\ trace = <<>>
    /\ root0 = [dir |-> FALSE, entries |-> EmptyRoot]
    /\ runs = 0
    /\ ticks = 0
    /\ call = NoCall

\* determineChannel({config, version}) is called, line 84
determineChannelCall ==
    /\ \E tags \in DistTags, version \in Versions \cup {NoName}, ok \in BOOLEAN :
         call' = [op |-> "determineChannel", file |-> channelFile, tags |-> tags,
                  version |-> version, ok |-> ok,
                  result |-> determineChannel(channelFile, tags, version, ok)]
    /\ UNCHANGED <<now, fsVars, envVars, config, pc, r, trace, root0, runs, ticks>>

NextChannel == determineChannelCall

SpecChannel == InitChannel /\ [][NextChannel]_vars

----------------------------------------------------------------------------
(* The debounce gate on its own *)

\* the marker was written at any minute of the hour before the run
InitDebounce ==
    /\ now = 0
    /\ lastrun \in (0 - DebounceMinutes)..0
    /\ rootDir = FALSE
    /\ root = EmptyRoot
    /\ channelFile = NoChannel
    /\ windows = FALSE
    /\ config = NoConfig
    /\ pc = "idle"
    /\ r = NoRun
    /\ trace = <<>>
    /\ root0 = [dir |-> FALSE, entries |-> EmptyRoot]
    /\ runs = 0
    /\ ticks = 0
    /\ call = NoCall

\* the CLI is used while the gate waits: the lastrun marker is rewritten
Activity ==
    /\ pc = "debounce"
    /\ lastrun < now
    /\ now <= MaxClock
    /\ lastrun' = now
    /\ UNCHANGED <<now, fsVars, windows, config, pc, r, trace, root0, cntVars>>

NextDebounce ==
    \/ StartRun
    \/ debounce
    \/ Activity
    \/ start
    \/ Finish

SpecDebounce == InitDebounce /\ [][NextDebounce]_vars

----------------------------------------------------------------------------
(* Properties *)

\* the current run has performed step e
Did(e) == \E i \in 1..Len(trace) : trace[i] = e

\* the tree a complete extraction of version v's archive leaves
CompleteTree(v) == Extracted(Archive(v, "plain"))

\* C1: when a step of extract before the final rename fails (a stream error, an
\* entry of an unsupported type, a failed backup), the call rejects and output is
\* exactly what it was before the call.
C1_FailedExtractLeavesOutput ==
    r.failed =>
        /\ pc \in {"exRename", "exCatch", "rejected"}
        /\ entryOf(r.updated) = r.before

\* C1 witness: an extraction over an existing output has failed and been rejected
C1_Witness == pc = "rejected" /\ r.failed /\ r.before.kind = "dir"

\* C2: at every step of an extraction the final path <root>/<version> is absent or
\* holds a complete tree, and while the stream is unpacked no version directory
\* changes: entries go to the '.partial.' sibling only.
C2_FinalPathAbsentOrComplete ==
    /\ \A v \in Versions : existsSync(v) => root[v].tree = CompleteTree(v)
    /\ pc \in {"extracting", "exCatch"} =>
         \A v \in Versions : root[v] = root0.entries[v]

\* C2 witness: the rename has just put a version at a final path that was absent
C2_Witness ==
    /\ pc = "exRmTmp"
    /\ root[r.updated].kind = "dir"
    /\ root0.entries[r.updated].kind = "none"

\* C3: a run that fails while resolving the target, fetching the index, downloading
\* or extracting rejects without having rewritten the shim or 'current'.
C3_AbortKeepsLauncher ==
    r.error \in {"latest", "index", "download", "extract"} =>
        /\ pc = "rejected"
        /\ ~Did("createBin")
        /\ root[BIN] = root0.entries[BIN]
        /\ root[CURRENT] = root0.entries[CURRENT]

\* C3 witness: an extraction failed in a run that started with a shim in place
C3_Witness ==
    /\ pc = "rejected"
    /\ r.error = "extract"
    /\ root0.entries[BIN].body # <<>>

\* C4: tidy never deletes 'bin', 'current' or the entry of the active version.
C4_TidyKeepsReserved ==
    [][pc = "tidy" =>
         \A n \in {BIN, CURRENT, config.version} :
             root[n].kind # "none" => root'[n].kind # "none"]_vars

\* C5: from an empty client root, a successful run for an explicit version V ends with
\* <root>/V/bin/<tool> present, 'current' pointing at ./V and the shim referencing V.
C5_FreshInstallLayout ==
    (pc = "done" /\ ~root0.dir /\ r.version # NoName /\ Did("extract")) =>
        /\ <<BIN, TOOL>> \in root[r.version].tree
        /\ root[CURRENT].target = linkTarget(r.version)
        /\ shimMatch(root[BIN].body) = r.version

\* C6: a run for an explicit version that is already installed, without force,
\* downloads and extracts nothing and ends with the shim referencing that version.
C6_LocalSwitchToRequested ==
    (pc = "done" /\ r.branch # "notUpdatable" /\ r.version # NoName /\ ~r.force
        /\ root0.entries[r.version].kind = "dir") =>
        /\ ~Did("download") /\ ~Did("extract")
        /\ shimMatch(root[BIN].body) = r.version

\* the case of C7 and C8: no explicit target, no force, latest equals current
NoOpCase ==
    /\ r.version = NoName
    /\ ~r.force
    /\ r.updated # NoName
    /\ r.updated = r.current

\* C7: with no explicit target and no force, when the latest version equals the
\* current one the run extracts nothing and rewrites neither the shim nor 'current'.
C7_NoOpNoInstall ==
    NoOpCase =>
        /\ ~Did("download") /\ ~Did("extract") /\ ~Did("createBin")
        /\ root[BIN] \in {root0.entries[BIN], NoEntry}
        /\ root[CURRENT] \in {root0.entries[CURRENT], NoEntry}

\* C7 witness: a no-op run has finished with a shim in place
C7_Witness == pc = "done" /\ NoOpCase /\ root[BIN].body # <<>>

\* C8 (as claimed): a no-op run changes nothing at all under the client root.
C8_NoOpMutatesNothing ==
    NoOpCase => (rootDir = root0.dir /\ root = root0.entries)

\* C8 (amended): a no-op run creates and rewrites nothing; the only changes are the
\* mtime touch() gives <root>/<config.version> and the deletions of tidy().
C8_NoOpOnlyTouchAndTidy ==
    NoOpCase =>
        /\ rootDir = root0.dir
        /\ \A n \in Names :
             \/ root[n] = root0.entries[n]
             \/ /\ Did("touch")
                /\ n = config.version
                /\ root[n] = [root0.entries[n] EXCEPT !.mtime = now]
             \/ Did("tidy") /\ root[n] = NoEntry

\* C8 witness: a no-op run has finished and the client root is not what it was
C8_Witness == pc = "done" /\ NoOpCase /\ root # root0.entries

\* C9: a run that took one of the three branches, and whose branch completed without
\* error, performs touch and then tidy, in that order, before it settles.
C9_TouchThenTidy ==
    (/\ pc \in {"done", "rejected"}
     /\ r.branch \in {"NoOp", "SwitchLocal", "DownloadAndInstall"}
     /\ Did("update") /\ r.error # "update") =>
        /\ Len(trace) >= 2
        /\ trace[Len(trace) - 1] = "touch"
        /\ trace[Len(trace)] = "tidy"

\* C10: a failure of touch or of tidy never makes runUpdate reject.
C10_TouchTidyNeverReject == r.error \notin {"touch", "tidy"}

\* C11: a run on the DownloadAndInstall branch, whether its target was requested or
\* is the latest version, looks the target up in a freshly fetched version index
\* before it downloads, extracts or rewrites the shim.
C11_IndexBeforeInstall ==
    (/\ r.branch = "DownloadAndInstall"
     /\ Did("download") \/ Did("extract") \/ Did("createBin")) =>
        /\ Did("index")
        /\ \A i \in 1..Len(trace) :
             trace[i] \in {"download", "extract", "createBin"} =>
                 \E j \in 1..(i - 1) : trace[j] = "index"

\* C12: when output exists and the stream has been unpacked without error, the next
\* step of extract is the rename, it succeeds, and output then holds the new tree.
C12_ReinstallSucceeds ==
    [][(pc = "exRename" /\ r.before.kind = "dir" /\ pc' # "idle") =>
          /\ pc' = "exRmTmp"
          /\ root'[r.updated].tree = CompleteTree(r.updated)]_vars

\* the entries of the root that the spec does not protect from tidy
Unprotected == Names \ {BIN, CURRENT, config.version}

\* C13: a tidy that raised no warning deletes every unprotected entry whose mtime plus
\* 42 days is before now, and any tidy retains every unprotected entry whose mtime
\* plus 42 days is after now.
C13_TidyByAge ==
    [][(pc = "tidy" /\ pc' = "done") =>
          \A n \in Unprotected :
              root[n].kind # "none" =>
                  /\ (root[n].mtime + RetentionMinutes < now /\ ~r'.warned)
                        => root'[n] = NoEntry
                  /\ root[n].mtime + RetentionMinutes > now => root'[n] = root[n]]_vars

\* C13 witness: a tidy has deleted one unprotected entry and kept another
C13_Witness ==
    /\ pc = "done" /\ Did("tidy") /\ ~r.warned
    /\ \E n \in Unprotected : root0.entries[n].kind # "none" /\ root[n].kind = "none"
    /\ \E n \in Unprotected : root0.entries[n].kind # "none" /\ root[n].kind # "none"

\* the channel the spec gives for a tag
SpecChannelOf(tag) ==
    IF tag = "latest" THEN "stable" ELSE IF tag = "latest-rc" THEN "stable-rc" ELSE tag

\* the persisted channel, 'stable' when there is no channel file
SpecPersisted(file) == IF file = NoChannel THEN "stable" ELSE file

\* C14: determineChannel returns the persisted or default channel when the query
\* fails; otherwise it selects a dist-tag whose version is the target version, or the
\* persisted or default channel when there is none, and returns 'stable' for
\* 'latest', 'stable-rc' for 'latest-rc' and the selected tag itself for any other.
C14_ChannelMapping ==
    call.op = "determineChannel" =>
        LET matching == {call.tags[i][1] :
                            i \in {j \in 1..Len(call.tags) : call.tags[j][2] = call.version}}
        IN  IF ~call.ok THEN call.result = SpecPersisted(call.file)
            ELSE IF matching # {} THEN call.result \in {SpecChannelOf(t) : t \in matching}
            ELSE call.result = SpecChannelOf(SpecPersisted(call.file))

\* C14 witness: with no channel file, the target version is tagged 'latest-rc'
C14_Witness ==
    /\ call.op = "determineChannel"
    /\ call.ok /\ call.file = NoChannel
    /\ \E i \in 1..Len(call.tags) : call.tags[i] = <<"latest-rc", call.version>>
    /\ call.result = "stable-rc"

\* C15: the gate returns only at a time when the marker's mtime plus one hour is not
\* in the future, and then without sleeping; evaluated at such a time it returns at
\* once; each suspension lasts one minute and is followed by a new evaluation.
C15_DebounceGate ==
    [][/\ (pc = "debounce" /\ pc' = "start") =>
            (lastrun + DebounceMinutes <= now /\ now' = now)
       /\ (pc = "debounce" /\ now' # now) =>
            /\ lastrun + DebounceMinutes > now
            /\ now' = now + WaitMinutes
            /\ pc' = "debounce"
       /\ (pc = "debounce" /\ lastrun + DebounceMinutes <= now /\ lastrun' = lastrun) =>
            pc' = "start"]_vars

\* C15 witness: the first run has passed the gate after waiting for the marker's hour
C15_Witness ==
    /\ pc = "start" /\ runs = 1
    /\ now >= 2
    /\ lastrun + DebounceMinutes = now

\* C16: no step of createBin on a POSIX host takes 'current' away: after each step
\* it is a link to the version it named before or to ./<version>.
C16_CurrentReplacedAtomically ==
    [][(/\ pc \in {"createBin", "cbWrite", "cbRm", "cbSymlink"}
        /\ ~windows
        /\ root[CURRENT].kind = "link") =>
          /\ root'[CURRENT].kind = "link"
          /\ root'[CURRENT].target \in {root[CURRENT].target, linkTarget(r.updated)}]_vars

\* a call of extract by the current run has settled
ExtractSettled ==
    /\ r.tmp # NoName
    /\ pc \notin {"extracting", "exRename", "exRmTmp", "exTouch", "exCatch", "idle"}

\* C17 (as claimed): once extract has settled, with success or with an error, the
\* '.partial.' directory of that call is not on disk.
C17_NoPartialLeft == ExtractSettled => root[r.tmp].kind = "none"

\* C17 (amended): once extract has settled, the '.partial.' directory of that call is
\* not on disk unless the rm of it failed, a failure extract swallows.
C17_NoPartialLeftUnlessRmFails ==
    (ExtractSettled /\ ~r.rmFailed) => root[r.tmp].kind = "none"

\* C17 witness: extract has rejected over an entry of an unrecognized type (the run
\* settled with the extract error) and its '.partial.' directory has been removed
C17_Witness ==
    /\ pc = "rejected" /\ r.error = "extract" /\ r.failed
    /\ ~r.rmFailed
    /\ root[r.tmp].kind = "none"

\* C18: within a run the 'update' hook comes after the 'preupdate' hook, and the
\* 'preupdate' hook comes before any download, extraction or shim rewrite.
C18_HooksPaired ==
    \A i \in 1..Len(trace) :
        trace[i] \in {"update", "download", "extract", "createBin"} =>
            \E j \in 1..(i - 1) : trace[j] = "preupdate"

\* C19: no step of the updater deletes the launcher shim, and after every step the
\* version the shim references, if there is a shim, is a complete version directory
\* of the client root.
C19_ShimStaysRunnable ==
    [][/\ root[BIN].body # <<>> => root'[BIN].body # <<>>
       /\ root'[BIN].body # <<>> =>
            LET v == shimMatch(root'[BIN].body)
            IN  /\ v \in Versions
                /\ root'[v].kind = "dir"
                /\ root'[v].tree = CompleteTree(v)]_vars

\* C20: a run takes the SwitchLocal branch for an explicit version V only when an
\* entry named exactly V is in the client root, and the shim it writes references V.
C20_SwitchLocalExactName ==
    r.branch = "SwitchLocal" =>
        /\ root0.entries[r.version].kind # "none"
        /\ r.updated = r.version
        /\ Did("createBin") => shimMatch(root[BIN].body) = r.version

====
